---- MODULE Spec2Model ----
(***************************************************************************)
(* Model of migrate_titles.py: the note parser, the title extractor, the   *)
(* migration decision, the migration writer and the driver (main).         *)
(* A text is a sequence of one-character strings.                          *)
(***************************************************************************)
EXTENDS Integers, Sequences, FiniteSets, TLC

VARIABLES
    dirExists,          \* notes_dir.exists()
    files,              \* content on disk of each *.md file, in glob order
    pre,                \* content of each file when the current run started
    backup_dir,         \* this run's backup directory: <<>>, or <<the copied tree>>
    pc,                 \* position of main
    cursor,             \* index of the loop main is in (analysis or migration)
    cls,                \* classification printed for each file ("" = none yet)
    notes_to_migrate,   \* the pending list
    response,           \* <<>> before the prompt, then <<what input() returned>>
    migrated_count,
    log,                \* MIGRATED / ERROR lines printed by the migration loop
    status,             \* exit status of the process
    exc,                \* the exception that escaped main, if any
    run,                \* number of the current run of the script
    prev_log            \* the migration lines printed by the previous run

vars == <<dirExists, files, pre, backup_dir, pc, cursor, cls, notes_to_migrate,
          response, migrated_count, log, status, exc, run, prev_log>>

----------------------------------------------------------------------------
(* Bounds *)

MaxFiles == 2

MaxRuns == 2

----------------------------------------------------------------------------
(* Python string primitives *)

Whitespace == {" ", "\n", "\t"}

Quotes == {"\"", "'"}

MinOf(S) == CHOOSE x \in S : \A y \in S : x <= y

IsAt(s, pat, p) ==
    /\ p + Len(pat) - 1 <= Len(s)
    /\ \A q \in 1..Len(pat) : s[p + q - 1] = pat[q]

RECURSIVE FindFrom(_, _, _)
FindFrom(s, pat, p) ==
    IF p > Len(s) THEN 0
    ELSE IF IsAt(s, pat, p) THEN p
    ELSE FindFrom(s, pat, p + 1)

\* str.find: position of the first occurrence of pat in s, 0 when there is none
Find(s, pat) == FindFrom(s, pat, 1)

Contains(s, pat) == Find(s, pat) # 0

StartsWith(s, pat) == IsAt(s, pat, 1)

\* str.split(sep, maxsplit); maxsplit = -1 is unlimited
RECURSIVE Split(_, _, _)
Split(s, sep, maxsplit) ==
    LET p == Find(s, sep)
    IN  IF maxsplit = 0 \/ p = 0
        THEN <<s>>
        ELSE <<SubSeq(s, 1, p - 1)>>
             \o Split(SubSeq(s, p + Len(sep), Len(s)), sep, maxsplit - 1)

\* the first position at or after p (step 1) or at or before p (step -1) that
\* holds no whitespace; 0 or Len(s) + 1 when there is none
RECURSIVE SkipSpace(_, _, _)
SkipSpace(s, p, step) ==
    IF p < 1 \/ p > Len(s) \/ s[p] \notin Whitespace
    THEN p
    ELSE SkipSpace(s, p + step, step)

\* str.strip()
Strip(s) == SubSeq(s, SkipSpace(s, 1, 1), SkipSpace(s, Len(s), -1))

LowerChar(c) ==
    CASE c = "Y" -> "y"
      [] c = "E" -> "e"
      [] c = "S" -> "s"
      [] c = "N" -> "n"
      [] c = "A" -> "a"
      [] c = "B" -> "b"
      [] OTHER -> c

\* str.lower()
Lower(s) == [p \in 1..Len(s) |-> LowerChar(s[p])]

----------------------------------------------------------------------------
(* Literals of the script *)

NL == <<"\n">>

MARK == <<"-", "-", "-", "\n">>

TitleKey == <<"t", "i", "t", "l", "e", ":">>

NotebookPrefix == <<".", "n", "o", "t", "e", "b", "o", "o", "k">>

TemplateMarker == <<"{", "{">>

----------------------------------------------------------------------------
(* parse_note_file *)

NotParsed == [ok |-> FALSE, yaml_content |-> <<>>, note_content |-> <<>>]

parse_note_file(content) ==
    LET parts == Split(content, MARK, 2)
    IN  IF Len(parts) # 3
        THEN NotParsed
        ELSE [ok |-> TRUE,
              yaml_content |-> Strip(parts[2]),
              note_content |-> Strip(parts[3])]

(* extract_title_from_yaml *)

\* re.sub(r'^["\']|["\']$', '', title)
StripQuotes(t) ==
    LET a == IF t # <<>> /\ t[1] \in Quotes THEN Tail(t) ELSE t
    IN  IF a # <<>> /\ a[Len(a)] \in Quotes THEN SubSeq(a, 1, Len(a) - 1) ELSE a

extract_title_from_yaml(yaml_content) ==
    LET lines == Split(yaml_content, NL, -1)
        hits  == {n \in 1..Len(lines) : StartsWith(lines[n], TitleKey)}
    IN  IF hits = {}
        THEN <<>>
        ELSE LET line == lines[MinOf(hits)]
             IN  StripQuotes(Strip(SubSeq(line, 7, Len(line))))

(* get_first_line_title *)

get_first_line_title_keeps_heading(content) ==
    IF content = <<>>
    THEN <<>>
    ELSE Strip(Split(content, <<"\n">>, -1)[1])

RECURSIVE DropWhile(_, _)
DropWhile(s, S) ==
    IF s # <<>> /\ s[1] \in S THEN DropWhile(Tail(s), S) ELSE s

\* re.sub(r'^#+\s*', '', first_line)
StripHeading(first_line) ==
    IF first_line # <<>> /\ first_line[1] = "#"
    THEN DropWhile(DropWhile(first_line, {"#"}), Whitespace)
    ELSE first_line

get_first_line_title(content) ==
    IF content = <<>>
    THEN <<>>
    ELSE StripHeading(Strip(Split(content, NL, -1)[1]))

(* needs_migration *)

needs_migration(stored_title, first_line) ==
    IF stored_title = <<>>
    THEN FALSE
    ELSE IF Contains(stored_title, TemplateMarker)
         THEN TRUE
         ELSE first_line # stored_title

(* migrate_note: the text it writes *)

new_content(stored_title, note_content) ==
    <<"#", " ">> \o stored_title \o NL \o NL \o note_content

full_content(stored_title, yaml_content, note_content) ==
    MARK \o yaml_content \o NL \o MARK \o NL
         \o new_content(stored_title, note_content) \o NL

----------------------------------------------------------------------------
(* The note files the notes directory may hold *)

Sp == <<" ">>

TitleA == TitleKey \o Sp \o <<"A">>

Note(yaml_block, body) == MARK \o yaml_block \o MARK \o body

Corpus ==
    { Note(TitleA \o NL, <<"B", "\n", "A", "\n">>),           \* title differs from first line
      Note(TitleA \o NL, <<"#", " ", "A", "\n", "B">>),       \* heading equals title
      Note(TitleA \o NL, <<"#", "A">>),                       \* '#' with no space after it
      Note(TitleA \o NL, <<"a">>),                            \* differs in case only
      Note(NL \o TitleA \o Sp \o NL \o NL,
           <<"\n", " ", "#", "#", " ", "A", " ", "\n">>),     \* surrounding whitespace
      Note(TitleA \o NL, <<>>),                               \* empty body
      Note(TitleA \o NL, <<"B", "\n">> \o MARK \o <<"B">>),   \* a third marker line
      Note(TitleKey \o NL, <<"B">>),                          \* empty title
      Note(TitleKey \o <<" ", "\"", " ", "A", "\"", "\n">>, <<"B">>),  \* quoted, leading space
      Note(TitleA \o <<"-", "-", "-", " ", "\n">>, <<"B">>),  \* metadata ends in '---'
      Note(TitleKey \o Sp \o TemplateMarker \o <<"A", "\n">>,
           TemplateMarker \o <<"A">>),                        \* placeholder, body matches
      Note(TitleKey \o Sp \o NotebookPrefix \o NL, <<"B">>),  \* marker file
      Note(TitleKey \o Sp \o NotebookPrefix \o TemplateMarker \o NL, <<"B">>),
      <<"B", "\n">> \o Note(TitleA \o NL, <<"B">>),           \* text before the first marker
      <<"A", "\n">>                                           \* no marker
    }

RECURSIVE SeqsUpTo(_, _)
SeqsUpTo(S, n) ==
    IF n = 0
    THEN {<<>>}
    ELSE LET shorter == SeqsUpTo(S, n - 1)
         IN  shorter \cup {Append(q, x) : q \in {r \in shorter : Len(r) = n - 1}, x \in S}

Responses ==
    { <<"y">>, <<"Y">>, <<"n">>, <<>>, <<"y", "e", "s">> }

NoBackup == <<>>

NoResponse == <<>>

Running == -1

----------------------------------------------------------------------------
(* main *)

Init ==
    /\ dirExists \in BOOLEAN
    /\ files \in (IF dirExists THEN SeqsUpTo(Corpus, MaxFiles) ELSE {<<>>})
    /\ pre = files
    /\ backup_dir = NoBackup
    /\ pc = "locate"
    /\ cursor = 0
    /\ cls = [n \in 1..Len(files) |-> ""]
    /\ notes_to_migrate = <<>>
    /\ response = NoResponse
    /\ migrated_count = 0
    /\ log = <<>>
    /\ status = Running
    /\ exc = "none"
    /\ run = 1
    /\ prev_log = <<>>

\* return <code> from main
Return(code) ==
    /\ pc' = "done"
    /\ status' = code
    /\ exc' = exc

\* an exception leaves main: the interpreter prints it and exits with status 1
Raise(what) ==
    /\ pc' = "done"
    /\ status' = 1
    /\ exc' = what

LocateReturnsZero ==
    /\ pc = "locate"
    /\ IF dirExists
       THEN /\ pc' = "backup"
            /\ UNCHANGED <<status, exc>>
       ELSE Return(0)
    /\ UNCHANGED <<dirExists, files, pre, backup_dir, cursor, cls, notes_to_migrate,
                   response, migrated_count, log, run, prev_log>>

Locate ==
    /\ pc = "locate"
    /\ IF dirExists
       THEN /\ pc' = "backup"
            /\ UNCHANGED <<status, exc>>
       ELSE Return(1)
    /\ UNCHANGED <<dirExists, files, pre, backup_dir, cursor, cls, notes_to_migrate,
                   response, migrated_count, log, run, prev_log>>

BackupFailureIgnored ==
    /\ pc = "backup"
    /\ \/ /\ backup_dir' = <<files>>
          /\ pc' = "enumerate"
       \/ /\ backup_dir' = backup_dir
          /\ pc' = "enumerate"
    /\ UNCHANGED <<dirExists, files, pre, cursor, cls, notes_to_migrate,
                   response, migrated_count, log, status, exc, run, prev_log>>

Backup ==
    /\ pc = "backup"
    /\ \/ /\ backup_dir' = <<files>>
          /\ pc' = "enumerate"
          /\ UNCHANGED <<status, exc>>
       \/ /\ backup_dir' = backup_dir
          /\ Raise("copytree")
    /\ UNCHANGED <<dirExists, files, pre, cursor, cls, notes_to_migrate,
                   response, migrated_count, log, run, prev_log>>

Enumerate ==
    /\ pc = "enumerate"
    /\ IF files = <<>>
       THEN /\ Return(0)
            /\ cursor' = cursor
       ELSE /\ pc' = "analyze"
            /\ cursor' = 1
            /\ UNCHANGED <<status, exc>>
    /\ UNCHANGED <<dirExists, files, pre, backup_dir, cls, notes_to_migrate,
                   response, migrated_count, log, run, prev_log>>

ClassifyNoTemplateCheck(stored_title, first_line) ==
    IF StartsWith(stored_title, NotebookPrefix)
    THEN "SKIP-MARKER"
    ELSE IF needs_migration(stored_title, first_line)
         THEN "NEEDS-MIGRATION"
         ELSE "OK"

\* what main prints for a parsed note
Classify(stored_title, first_line) ==
    IF StartsWith(stored_title, NotebookPrefix)
    THEN "SKIP-MARKER"
    ELSE IF Contains(stored_title, TemplateMarker)
         THEN "SKIP-TEMPLATE"
         ELSE IF needs_migration(stored_title, first_line)
              THEN "NEEDS-MIGRATION"
              ELSE "OK"

\* what main prints for the text of a file
Analysis(content) ==
    LET parsed == parse_note_file(content)
    IN  IF ~parsed.ok
        THEN "SKIP-UNPARSEABLE"
        ELSE Classify(extract_title_from_yaml(parsed.yaml_content),
                      get_first_line_title(parsed.note_content))

Record(n, content) ==
    LET parsed == parse_note_file(content)
    IN  [note_file    |-> n,
         stored_title |-> extract_title_from_yaml(parsed.yaml_content),
         yaml_content |-> parsed.yaml_content,
         note_content |-> parsed.note_content]

Analyze ==
    /\ pc = "analyze"
    /\ cursor <= Len(files)
    /\ \/ /\ Raise("read")
          /\ UNCHANGED <<cursor, cls, notes_to_migrate>>
       \/ /\ cls' = [cls EXCEPT ![cursor] = Analysis(files[cursor])]
          /\ notes_to_migrate' =
                IF Analysis(files[cursor]) = "NEEDS-MIGRATION"
                THEN Append(notes_to_migrate, Record(cursor, files[cursor]))
                ELSE notes_to_migrate
          /\ cursor' = cursor + 1
          /\ UNCHANGED <<pc, status, exc>>
    /\ UNCHANGED <<dirExists, files, pre, backup_dir, response, migrated_count,
                   log, run, prev_log>>

AnalysisComplete ==
    /\ pc = "analyze"
    /\ cursor > Len(files)
    /\ IF notes_to_migrate = <<>>
       THEN Return(0)
       ELSE /\ pc' = "confirm"
            /\ UNCHANGED <<status, exc>>
    /\ UNCHANGED <<dirExists, files, pre, backup_dir, cursor, cls, notes_to_migrate,
                   response, migrated_count, log, run, prev_log>>

CancelledUnlessStartsWithY(r) == ~StartsWith(Lower(r), <<"y">>)

Cancelled(r) == Lower(r) # <<"y">>

Confirm ==
    /\ pc = "confirm"
    /\ \/ /\ Raise("input")
          /\ UNCHANGED <<response, cursor>>
       \/ \E r \in Responses :
            /\ response' = <<r>>
            /\ IF Cancelled(r)
               THEN /\ Return(0)
                    /\ cursor' = cursor
               ELSE /\ pc' = "migrate"
                    /\ cursor' = 1
                    /\ UNCHANGED <<status, exc>>
    /\ UNCHANGED <<dirExists, files, pre, backup_dir, cls, notes_to_migrate,
                   migrated_count, log, run, prev_log>>

MigrateAbortsOnFailure ==
    /\ pc = "migrate"
    /\ cursor <= Len(notes_to_migrate)
    /\ LET rec == notes_to_migrate[cursor]
       IN  \/ /\ files' = [files EXCEPT ![rec.note_file] =
                              full_content(rec.stored_title, rec.yaml_content,
                                           rec.note_content)]
              /\ log' = Append(log, <<"MIGRATED", rec.note_file>>)
              /\ migrated_count' = migrated_count + 1
              /\ cursor' = cursor + 1
              /\ UNCHANGED <<pc, status, exc>>
           \/ /\ files' = files
              /\ log' = Append(log, <<"ERROR", rec.note_file>>)
              /\ migrated_count' = migrated_count
              /\ cursor' = cursor
              /\ Raise("write")
    /\ UNCHANGED <<dirExists, pre, backup_dir, cls, notes_to_migrate, response,
                   run, prev_log>>

\* one iteration of the migration loop; open() may fail, or write() may fail
\* after open() has truncated the file
Migrate ==
    /\ pc = "migrate"
    /\ cursor <= Len(notes_to_migrate)
    /\ LET rec == notes_to_migrate[cursor]
       IN  \/ /\ files' = [files EXCEPT ![rec.note_file] =
                              full_content(rec.stored_title, rec.yaml_content,
                                           rec.note_content)]
              /\ log' = Append(log, <<"MIGRATED", rec.note_file>>)
              /\ migrated_count' = migrated_count + 1
           \/ /\ files' = files
              /\ log' = Append(log, <<"ERROR", rec.note_file>>)
              /\ migrated_count' = migrated_count
           \/ /\ files' = [files EXCEPT ![rec.note_file] = <<>>]
              /\ log' = Append(log, <<"ERROR", rec.note_file>>)
              /\ migrated_count' = migrated_count
    /\ cursor' = cursor + 1
    /\ UNCHANGED <<dirExists, pre, backup_dir, pc, cls, notes_to_migrate, response,
                   status, exc, run, prev_log>>

Report ==
    /\ pc = "migrate"
    /\ cursor > Len(notes_to_migrate)
    /\ Return(0)
    /\ UNCHANGED <<dirExists, files, pre, backup_dir, cursor, cls, notes_to_migrate,
                   response, migrated_count, log, run, prev_log>>

\* the script is started again on the same notes directory
Rerun ==
    /\ pc = "done"
    /\ run < MaxRuns
    /\ run' = run + 1
    /\ pre' = files
    /\ prev_log' = log
    /\ backup_dir' = NoBackup
    /\ pc' = "locate"
    /\ cursor' = 0
    /\ cls' = [n \in 1..Len(files) |-> ""]
    /\ notes_to_migrate' = <<>>
    /\ response' = NoResponse
    /\ migrated_count' = 0
    /\ log' = <<>>
    /\ status' = Running
    /\ exc' = "none"
    /\ UNCHANGED <<dirExists, files>>

Next ==
    \/ Locate
    \/ Backup
    \/ Enumerate
    \/ Analyze
    \/ AnalysisComplete
    \/ Confirm
    \/ Migrate
    \/ Report

Spec == Init /\ [][Next]_vars

NextRerun == Next \/ Rerun

SpecRerun == Init /\ [][NextRerun]_vars

----------------------------------------------------------------------------
(* Vocabulary of the properties *)

Files == 1..Len(files)

Pending == {notes_to_migrate[k].note_file : k \in 1..Len(notes_to_migrate)}

Migrated(l) == {l[k][2] : k \in {m \in 1..Len(l) : l[m][1] = "MIGRATED"}}

Accepted == response \in {<<<<"y">>>>, <<<<"Y">>>>}

Declined == response # <<>> /\ ~Accepted

\* a line of the text that consists of the marker token alone
MarkerLines(text) ==
    LET lines == Split(text, NL, -1)
    IN  {n \in 1..(Len(lines) - 1) : lines[n] = <<"-", "-", "-">>}

\* empty preamble, marker line, metadata, marker line, body: two marker lines
WellFormed(text) ==
    /\ 1 \in MarkerLines(text)
    /\ Cardinality(MarkerLines(text)) = 2

\* the body's first line, trimmed, without a leading run of '#' that is followed
\* by at least minSpace whitespace characters
BodyFirstLine(body, minSpace) ==
    LET l == Strip(Split(body, NL, -1)[1])
        k == Cardinality({p \in 1..Len(l) : \A q \in 1..p : l[q] = "#"})
        j == Cardinality({p \in (k + 1)..Len(l) :
                            \A q \in (k + 1)..p : l[q] \in Whitespace})
    IN  IF k >= 1 /\ j >= minSpace THEN SubSeq(l, k + j + 1, Len(l)) ELSE l

\* marker line + metadata block + marker line + blank line + body + newline
Serialize(yaml_content, body) ==
    MARK \o yaml_content \o NL \o MARK \o NL \o body \o NL

\* a parsed note whose title is not empty, not a marker file's, not a template's
Eligible(parsed, title) ==
    /\ parsed.ok
    /\ title # <<>>
    /\ ~StartsWith(title, NotebookPrefix)
    /\ ~Contains(title, TemplateMarker)

----------------------------------------------------------------------------
(* C1: no note file is written before the whole-tree backup has completed:  *)
(* whenever a file differs from its pre-run content or the writer has been  *)
(* invoked, this run's backup directory holds the pre-run tree; and a run   *)
(* that ended on a missing directory or a failed copy changed no file.      *)
C1_BackupBeforeWrite ==
    /\ (files # pre \/ log # <<>> \/ pc = "migrate") => backup_dir = <<pre>>
    /\ (pc = "done" /\ (~dirExists \/ exc = "copytree"))
          => (files = pre /\ log = <<>>)

C1_Witness ==
    /\ pc = "done"
    /\ files # pre
    /\ backup_dir = <<pre>>

(* C2: with M >= 1 notes pending, any response other than 'y' or 'Y' ends  *)
(* the run with status 0, every file as it was before the run, and the      *)
(* backup directory created.                                                *)
C2_CancelLeavesFiles ==
    (pc = "done" /\ Declined)
        => /\ status = 0
           /\ files = pre
           /\ log = <<>>
           /\ backup_dir = <<pre>>

C2_Witness ==
    /\ pc = "done"
    /\ response = <<<<"y", "e", "s">>>>
    /\ Len(files) = 2
    /\ Len(notes_to_migrate) >= 1
    /\ status = 0

(* C3: a file that is not well-formed is skipped by the analysis, gets no   *)
(* migration record and is never changed.                                   *)
C3_MalformedSkipped ==
    \A n \in Files :
        ~WellFormed(pre[n])
            => /\ cls[n] \in {"", "SKIP-UNPARSEABLE"}
               /\ n \notin Pending
               /\ files[n] = pre[n]

(* C4: a failed write never aborts the batch: the writer is invoked once    *)
(* for every pending record, in order; every record whose write succeeded  *)
(* is rewritten; the migrated count is the number of successful writes and  *)
(* the exit status is 0.                                                    *)
C4_BatchNeverAborts ==
    /\ pc = "migrate" => Len(log) = cursor - 1
    /\ (pc = "done" /\ Accepted)
          => /\ status = 0
             /\ Len(log) = Len(notes_to_migrate)
             /\ migrated_count = Cardinality(Migrated(log))
    /\ \A k \in 1..Len(log) :
          LET rec == notes_to_migrate[k]
          IN  /\ log[k][2] = rec.note_file
              /\ \A m \in 1..(k - 1) : log[m][2] < log[k][2]
              /\ log[k][1] = "MIGRATED"
                    => files[rec.note_file] =
                          MARK \o rec.yaml_content \o NL \o MARK \o NL
                               \o <<"#", " ">> \o rec.stored_title \o NL \o NL
                               \o rec.note_content \o NL

C4_Witness ==
    /\ pc = "done"
    /\ status = 0
    /\ Len(log) = 2
    /\ log[1][1] = "ERROR"
    /\ log[2][1] = "MIGRATED"
    /\ migrated_count = 1

(* C5: a rewritten note parses to the original metadata block and to the    *)
(* body '# ' + stored title, a blank line, the original body.               *)
C5_RewrittenParses ==
    \A n \in Migrated(log) :
        LET before == parse_note_file(pre[n])
            title  == extract_title_from_yaml(before.yaml_content)
            after  == parse_note_file(files[n])
        IN  /\ after.ok
            /\ after.yaml_content = before.yaml_content
            /\ after.note_content =
                  <<"#", " ">> \o title \o NL \o NL \o before.note_content

(* C6 as stated: a parseable note whose stored title contains '{{' is       *)
(* classified SKIP-TEMPLATE whatever else the title and the body hold, and  *)
(* is neither pending nor rewritten.                                        *)
C6_AlwaysSkipTemplate ==
    \A n \in Files :
        LET parsed == parse_note_file(pre[n])
            title  == extract_title_from_yaml(parsed.yaml_content)
        IN  (parsed.ok /\ Contains(title, TemplateMarker))
            => /\ cls[n] \in {"", "SKIP-TEMPLATE"}
               /\ n \notin Pending
               /\ files[n] = pre[n]

(* C6 amended: such a note is classified SKIP-TEMPLATE unless its title     *)
(* starts with '.notebook', when it is classified SKIP-MARKER; either way   *)
(* it is neither pending nor rewritten.                                     *)
C6_TemplateNeverMigrated ==
    \A n \in Files :
        LET parsed == parse_note_file(pre[n])
            title  == extract_title_from_yaml(parsed.yaml_content)
        IN  (parsed.ok /\ Contains(title, TemplateMarker))
            => /\ cls[n] \in {"", IF StartsWith(title, NotebookPrefix)
                                  THEN "SKIP-MARKER" ELSE "SKIP-TEMPLATE"}
               /\ n \notin Pending
               /\ files[n] = pre[n]

C6_Witness ==
    /\ pc = "done"
    /\ log # <<>>
    /\ \E n \in Files :
          LET parsed == parse_note_file(pre[n])
              title  == extract_title_from_yaml(parsed.yaml_content)
          IN  /\ cls[n] = "SKIP-TEMPLATE"
              /\ parsed.ok
              /\ Contains(title, TemplateMarker)
              /\ Split(parsed.note_content, NL, -1)[1] = title

(* C7: parsing a well-formed note, reserializing the metadata block and the *)
(* body, and parsing again gives the same metadata block and body.          *)
C7_RoundTrip ==
    \A n \in Files :
        (cls[n] # "" /\ WellFormed(pre[n]))
            => LET first == parse_note_file(pre[n])
               IN  /\ first.ok
                   /\ parse_note_file(Serialize(first.yaml_content,
                                                first.note_content)) = first

(* C8 as stated: the exit status is 1 exactly when the notes directory is   *)
(* not found, and 0 on every other terminating path.                        *)
C8_OneOnlyForMissingDir ==
    pc = "done" => /\ status \in {0, 1}
                   /\ status = 1 <=> ~dirExists

(* C8 amended: the exit status is 1 when the notes directory is not found   *)
(* or an exception leaves main (failed backup copy, unreadable file, no     *)
(* input at the prompt), and 0 on every other terminating path.             *)
C8_ExitStatus ==
    /\ pc = "done"
          => /\ status \in {0, 1}
             /\ status = 1 <=> (~dirExists \/ exc # "none")
             /\ exc = "copytree" => backup_dir = <<>>
             /\ exc # "none" => log = <<>>
    /\ pc # "done" => (status = Running /\ exc = "none")

C8_Witness ==
    /\ pc = "done"
    /\ status = 0
    /\ \E k \in 1..Len(log) : log[k][1] = "ERROR"

(* C9 as stated: an eligible note is OK exactly when its stored title       *)
(* equals the body's first line with a heading marker removed only when it  *)
(* is '#'s followed by whitespace; otherwise it is NEEDS-MIGRATION.         *)
C9_HeadingNeedsSpace ==
    \A n \in Files :
        LET parsed == parse_note_file(pre[n])
            title  == extract_title_from_yaml(parsed.yaml_content)
        IN  (cls[n] # "" /\ Eligible(parsed, title))
            => cls[n] = IF title = BodyFirstLine(parsed.note_content, 1)
                        THEN "OK" ELSE "NEEDS-MIGRATION"

(* C9 amended: the leading '#'s are removed together with any whitespace    *)
(* after them, also when none follows.                                      *)
C9_Decision ==
    \A n \in Files :
        LET parsed == parse_note_file(pre[n])
            title  == extract_title_from_yaml(parsed.yaml_content)
        IN  (cls[n] # "" /\ Eligible(parsed, title))
            => cls[n] = IF title = BodyFirstLine(parsed.note_content, 0)
                        THEN "OK" ELSE "NEEDS-MIGRATION"

C9_Witness ==
    \E n \in Files :
        LET parsed == parse_note_file(pre[n])
            title  == extract_title_from_yaml(parsed.yaml_content)
        IN  /\ cls[n] = "OK"
            /\ Eligible(parsed, title)
            /\ SubSeq(parsed.note_content, 1, 2) = <<"#", "A">>

(* C10: a note rewritten by one run is classified OK by the next run, which *)
(* leaves it as it is.                                                      *)
C10_Idempotent ==
    \A n \in Migrated(prev_log) :
        /\ cls[n] \in {"", "OK"}
        /\ files[n] = pre[n]

====
